---- MODULE Spec2Model ----
(***************************************************************************)
(* Energy dashboard (app.py): the session state of the Streamlit script,   *)
(* the sidebar that loads the CSV and reads the selection widgets, the     *)
(* comparison frame builder, the KPI computation and the totals.           *)
(*                                                                         *)
(* A timestamp is a number of hours since 2024-01-01 00:00 (a Monday); a   *)
(* date is a number of days since 2024-01-01.  A data frame is a record    *)
(* with its column names and its rows; each row keeps the index label      *)
(* read_csv gave it (a RangeIndex, starting at 0).  One numeric variable   *)
(* column, "v", follows the Timestamp column.                              *)
(***************************************************************************)
EXTENDS Integers, Sequences, FiniteSets, TLC

\* ---------------------------------------------------------------- bounds

\* Longest uploaded table, in rows.
MaxRows == 2

\* Timestamps a row may carry: Wed 2024-01-31 00:00, Wed 2024-01-31 12:00,
\* Thu 2024-02-01 12:00, Mon 2024-02-05 00:00.
Timestamps == {720, 732, 756, 840}

\* Values of the variable column.
Values == {1, 2}

\* -------------------------------------------------------------- calendar

\* Day numbers on which the months of 2024 start (January .. April).
MonthStarts == <<0, 31, 60, 91>>

\* Timestamp.date(): the calendar day of a timestamp.
date(ts) == ts \div 24

\* pd.to_datetime(a date): the date at 00:00.
to_datetime(d) == d * 24

MonthIndex(d) == CHOOSE i \in 1..3 : MonthStarts[i] <= d /\ d < MonthStarts[i + 1]

\* .dt.to_period("M").astype(str): the label "2024-MM", kept as <<"M", year, month>>.
to_period_M(ts) == <<"M", 2024, MonthIndex(date(ts))>>

\* .dt.day: the day of the month.
dt_day(ts) == date(ts) - MonthStarts[MonthIndex(date(ts))] + 1

\* .dt.to_period("W").astype(str): the label "monday/sunday" of the week
\* (weeks end on Sunday), kept as <<"W", monday, sunday>>.
to_period_W(ts) == <<"W", date(ts) - (date(ts) % 7), date(ts) - (date(ts) % 7) + 6>>

\* .dt.weekday: 0 is Monday.
dt_weekday(ts) == date(ts) % 7

\* f"{base_start} → {base_end}"
RangeLabel(date_range) == <<"R", date_range[1], date_range[2]>>

\* Order of two labels of one kind as strings: "2024-01" < "2024-02", and
\* ISO dates order as the days do.
PeriodLess(p, q) == p[2] < q[2] \/ (p[2] = q[2] /\ p[3] < q[3])

\* ---------------------------------------------------------------- frames

RECURSIVE SeqSum(_)
SeqSum(s) == IF s = <<>> THEN 0 ELSE Head(s) + SeqSum(Tail(s))

SetMin(S) == CHOOSE x \in S : \A y \in S : x <= y
SetMax(S) == CHOOSE x \in S : \A y \in S : y <= x

\* Sequences over S of length 1..n.
SeqsUpTo(S, n) == UNION {[1..k -> S] : k \in 1..n}

\* Sequences without repetition over S (a multiselect's value), any length.
Selections(S) == {s \in UNION {[1..k -> S] : k \in 0..Cardinality(S)} :
                    \A i, j \in 1..Len(s) : i # j => s[i] # s[j]}

\* The cells of a CSV row.
CsvRows == [Timestamp : Timestamps, v : Values]

\* An uploaded file: its header, whether its Timestamp cells are date text
\* ("iso") or text no date parser accepts ("garbage"), and its rows.
NoFile == [header |-> <<>>, tsText |-> "none", rows |-> <<>>]
GoodFile(r) == [header |-> <<"Timestamp", "v">>, tsText |-> "iso", rows |-> r]
GoodFiles == {GoodFile(r) : r \in SeqsUpTo(CsvRows, MaxRows)}
NoTimestampFile == [header |-> <<"Time", "v">>, tsText |-> "iso",
                    rows |-> <<[Timestamp |-> 720, v |-> 1]>>]
GarbageFile == [header |-> <<"Timestamp", "v">>, tsText |-> "garbage",
                rows |-> <<[Timestamp |-> 720, v |-> 1]>>]

\* The files the session is given: every table of timestamps with a constant
\* variable column (loading, navigation and the failures of a run read no
\* value), and the two malformed files.
UploadFiles ==
    {GoodFile(r) : r \in SeqsUpTo([Timestamp : Timestamps, v : {1}], MaxRows)}
      \cup {NoTimestampFile, GarbageFile}

\* "csv_data" not in st.session_state
NotSet == [columns |-> <<>>, dtype |-> "none", tsText |-> "none", rows |-> <<>>]

\* pd.read_csv: the columns of the header, the Timestamp column still text,
\* the rows labelled 0, 1, ...
read_csv(file) ==
    [columns |-> file.header, dtype |-> "object", tsText |-> file.tsText,
     rows |-> [i \in 1..Len(file.rows) |->
                 [idx |-> i - 1, Timestamp |-> file.rows[i].Timestamp, v |-> file.rows[i].v]]]

HasColumn(df, c) == \E i \in 1..Len(df.columns) : df.columns[i] = c

\* data["Timestamp"] raises KeyError without the column; pd.to_datetime
\* raises on text that is no date.
TimestampRaises(df) ==
    \/ ~HasColumn(df, "Timestamp")
    \/ (df.dtype = "object" /\ df.tsText # "iso")

\* data["Timestamp"] = pd.to_datetime(data["Timestamp"]), in place.
ParseTimestamp(df) == [df EXCEPT !.dtype = "datetime64"]

TimestampsOf(df) == {df.rows[i].Timestamp : i \in 1..Len(df.rows)}

\* (min_date, max_date): the bounds and the default value of the date input.
DateBounds(data) == <<date(SetMin(TimestampsOf(data))), date(SetMax(TimestampsOf(data)))>>

\* .unique(): the labels in order of first appearance.
RECURSIVE Unique(_)
Unique(s) ==
    IF s = <<>> THEN <<>>
    ELSE LET front == Unique(SubSeq(s, 1, Len(s) - 1))
             last == s[Len(s)]
         IN IF \E i \in 1..Len(front) : front[i] = last THEN front ELSE Append(front, last)

month_options(data) == Unique([i \in 1..Len(data.rows) |-> to_period_M(data.rows[i].Timestamp)])
week_options(data) == Unique([i \in 1..Len(data.rows) |-> to_period_W(data.rows[i].Timestamp)])

Range(s) == {s[i] : i \in 1..Len(s)}

\* What the date input can return, normalised to (base_start, base_end):
\* a pair start <= end within the bounds, or one date d, taken as (d, d).
\* The dates offered are the days that carry data.
DateChoices(data) ==
    {p \in {date(t) : t \in TimestampsOf(data)} \X {date(t) : t \in TimestampsOf(data)} :
       p[1] <= p[2]}

\* ------------------------------------------------- build_comparison_df

\* data[mask] is SelectSeq(data.rows, mask): the rows the mask keeps, in the
\* frame's order, as a new frame.

\* MonthFrame with the week's alignment in place of the month's.
MonthFrame_weekday(data, m) ==
    LET InMonth(r) == to_period_M(r.Timestamp) = m
        kept == SelectSeq(data.rows, InMonth)
    IN [i \in 1..Len(kept) |->
          [idx |-> kept[i].idx, Timestamp |-> kept[i].Timestamp, v |-> kept[i].v,
           Period |-> m, AlignedX |-> dt_weekday(kept[i].Timestamp)]]

\* df_m: the rows of month m, tagged with Period = m and AlignedX = day of month.
MonthFrame(data, m) ==
    LET InMonth(r) == to_period_M(r.Timestamp) = m
        kept == SelectSeq(data.rows, InMonth)
    IN [i \in 1..Len(kept) |->
          [idx |-> kept[i].idx, Timestamp |-> kept[i].Timestamp, v |-> kept[i].v,
           Period |-> m, AlignedX |-> dt_day(kept[i].Timestamp)]]

\* df_w: the rows of week w, tagged with Period = w and AlignedX = weekday.
WeekFrame(data, w) ==
    LET InWeek(r) == to_period_W(r.Timestamp) = w
        kept == SelectSeq(data.rows, InWeek)
    IN [i \in 1..Len(kept) |->
          [idx |-> kept[i].idx, Timestamp |-> kept[i].Timestamp, v |-> kept[i].v,
           Period |-> w, AlignedX |-> dt_weekday(kept[i].Timestamp)]]

\* The loop over months: final_df = pd.concat([final_df, df_m]), label by label.
RECURSIVE ConcatMonths(_, _)
ConcatMonths(data, months) ==
    IF months = <<>> THEN <<>>
    ELSE ConcatMonths(data, SubSeq(months, 1, Len(months) - 1))
           \o MonthFrame(data, months[Len(months)])

RECURSIVE ConcatWeeks(_, _)
ConcatWeeks(data, weeks) ==
    IF weeks = <<>> THEN <<>>
    ELSE ConcatWeeks(data, SubSeq(weeks, 1, Len(weeks) - 1))
           \o WeekFrame(data, weeks[Len(weeks)])

\* The default branch: the rows with to_datetime(base_start) <= Timestamp
\* <= to_datetime(base_end), copied and tagged with the one range label.
RangeFrame(data, date_range) ==
    LET InRange(r) == /\ r.Timestamp >= to_datetime(date_range[1])
                      /\ r.Timestamp <= to_datetime(date_range[2])
        kept == SelectSeq(data.rows, InRange)
    IN [i \in 1..Len(kept) |->
          [idx |-> kept[i].idx, Timestamp |-> kept[i].Timestamp, v |-> kept[i].v,
           Period |-> RangeLabel(date_range)]]

\* build_comparison_df with the week branch tested before the month branch.
build_comparison_df_weeks_first(data, date_range, months, weeks) ==
    IF weeks # <<>>
    THEN [columns |-> data.columns \o <<"Period", "AlignedX">>,
          rows |-> ConcatWeeks(data, weeks)]
    ELSE IF months # <<>>
    THEN [columns |-> data.columns \o <<"Period", "AlignedX">>,
          rows |-> ConcatMonths(data, months)]
    ELSE [columns |-> data.columns \o <<"Period">>,
          rows |-> RangeFrame(data, date_range)]

\* final_df of build_comparison_df: months first, weeks if there are no
\* months, the date range if there are neither.
build_comparison_df(data, date_range, months, weeks) ==
    IF months # <<>>
    THEN [columns |-> data.columns \o <<"Period", "AlignedX">>,
          rows |-> ConcatMonths(data, months)]
    ELSE IF weeks # <<>>
    THEN [columns |-> data.columns \o <<"Period", "AlignedX">>,
          rows |-> ConcatWeeks(data, weeks)]
    ELSE [columns |-> data.columns \o <<"Period">>,
          rows |-> RangeFrame(data, date_range)]

\* DataAfterBuild when the filtered frame is a view of data: the Period
\* column is written through to data.
DataAfterBuild_view(data, date_range, months, weeks) ==
    [data EXCEPT !.columns = @ \o <<"Period">>]

\* The frame passed as data once build_comparison_df has returned: every
\* assignment of the function goes to a frame boolean indexing or .copy()
\* created, none to data itself.
DataAfterBuild(data, date_range, months, weeks) == data

\* ------------------------------------------------------------ render_kpis

NoFrame == [columns |-> <<>>, rows |-> <<>>]
NoKpis == [avg |-> <<0, 0>>, max |-> 0, min |-> 0, peak |-> <<>>]

ColumnV(df) == [i \in 1..Len(df.rows) |-> df.rows[i].v]

\* idxmax returning the last row holding the maximum.
idxmax_last(df) ==
    LET mx == SetMax({df.rows[i].v : i \in 1..Len(df.rows)})
        last == SetMax({i \in 1..Len(df.rows) : df.rows[i].v = mx})
    IN df.rows[last].idx

\* Series.idxmax(): the index label of the first row holding the maximum.
idxmax(df) ==
    LET mx == SetMax(Range(ColumnV(df)))
        first == SetMin({i \in 1..Len(df.rows) : df.rows[i].v = mx})
    IN df.rows[first].idx

\* df.loc[label, "Timestamp"]: the Timestamp of every row carrying the label
\* (one value when the label is unique).
loc(df, label) ==
    LET HasLabel(r) == r.idx = label
        hit == SelectSeq(df.rows, HasLabel)
    IN [i \in 1..Len(hit) |-> hit[i].Timestamp]

\* idxmax of an empty column raises ValueError.
render_kpis_raises(df) == HasColumn(df, "Timestamp") /\ df.rows = <<>>

\* The four metrics; the mean is kept as <<sum, count>>.
render_kpis(df) ==
    [avg |-> <<SeqSum(ColumnV(df)), Len(df.rows)>>,
     max |-> SetMax(Range(ColumnV(df))),
     min |-> SetMin(Range(ColumnV(df))),
     peak |-> IF HasColumn(df, "Timestamp") THEN loc(df, idxmax(df)) ELSE <<"Aligned">>]

\* ------------------------------------------------------------------ totals

\* The group keys of groupby("Period"): sorted, as groupby sorts by default.
RECURSIVE SortedKeys(_)
SortedKeys(S) ==
    IF S = {} THEN <<>>
    ELSE LET least == CHOOSE p \in S : \A q \in S \ {p} : PeriodLess(p, q)
         IN <<least>> \o SortedKeys(S \ {least})

\* The group keys with sort=False: in order of first appearance.
GroupKeys_unsorted(df) == Unique([i \in 1..Len(df.rows) |-> df.rows[i].Period])

GroupKeys(df) == SortedKeys({df.rows[i].Period : i \in 1..Len(df.rows)})

\* final_df.groupby("Period")[selected_var].sum().reset_index()
Totals(df) ==
    LET keys == GroupKeys(df)
    IN [k \in 1..Len(keys) |->
          [Period |-> keys[k],
           v |-> LET InGroup(r) == r.Period = keys[k]
                 IN SeqSum(ColumnV([rows |-> SelectSeq(df.rows, InGroup)]))]]

\* ------------------------------------------------------------------ state

VARIABLES
    app_mode,        \* st.session_state.app_mode
    csv_data,        \* st.session_state.csv_data, NotSet before the first upload
    uploaded_file,   \* the file the uploader widget holds, NoFile when empty
    date_range,      \* (base_start, base_end) of the last run, <<>> when not read
    compare_months,  \* the month multiselect's value
    compare_weeks,   \* the week multiselect's value
    final_df,        \* what build_comparison_df returned in the last run
    kpis,            \* the metrics shown
    totals,          \* the totals frame of the bar chart
    run_status       \* how the last script run ended

vars == <<app_mode, csv_data, uploaded_file, date_range, compare_months,
          compare_weeks, final_df, kpis, totals, run_status>>

\* The router defaulting to the dashboard.
RouterDefault_dashboard(mode) == IF mode = "unset" THEN "dashboard" ELSE mode

\* router(): app_mode defaults to "landing" when the session has none.
RouterDefault(mode) == IF mode = "unset" THEN "landing" ELSE mode

\* The sidebar widgets below the uploader were drawn by the last run.
SidebarShown == run_status \in {"ok", "kpi_exception"}

NothingRendered ==
    /\ date_range' = <<>>
    /\ compare_months' = <<>>
    /\ compare_weeks' = <<>>
    /\ final_df' = NoFrame
    /\ kpis' = NoKpis
    /\ totals' = <<>>

\* The first run of the script: router() shows the landing page.
Init ==
    /\ app_mode = RouterDefault("unset")
    /\ csv_data = NotSet
    /\ uploaded_file = NoFile
    /\ date_range = <<>>
    /\ compare_months = <<>>
    /\ compare_weeks = <<>>
    /\ final_df = NoFrame
    /\ kpis = NoKpis
    /\ totals = <<>>
    /\ run_status = "landing"

\* One run of dashboard() with `file` in the uploader and the widgets asked
\* for dr, months and weeks.  A widget keeps the value asked for when the
\* last run drew it with the same bounds or options; a widget drawn anew
\* returns its default.
dashboard(file, dr, months, weeks) ==
    LET loaded == IF file # NoFile THEN read_csv(file) ELSE csv_data
    IN /\ app_mode' = RouterDefault("dashboard")
       /\ uploaded_file' = file
       /\ IF loaded = NotSet
          THEN /\ csv_data' = csv_data
               /\ run_status' = "warning"
               /\ NothingRendered
          ELSE IF TimestampRaises(loaded)
          THEN /\ csv_data' = loaded
               /\ run_status' = "sidebar_exception"
               /\ NothingRendered
          ELSE LET data == ParseTimestamp(loaded)
                   base == IF SidebarShown /\ DateBounds(csv_data) = DateBounds(data)
                           THEN dr ELSE DateBounds(data)
                   ms == IF SidebarShown /\ month_options(csv_data) = month_options(data)
                         THEN months ELSE <<>>
                   ws == IF SidebarShown /\ week_options(csv_data) = week_options(data)
                         THEN weeks ELSE <<>>
                   built == build_comparison_df(data, base, ms, ws)
               IN /\ csv_data' = DataAfterBuild(data, base, ms, ws)
                  /\ date_range' = base
                  /\ compare_months' = ms
                  /\ compare_weeks' = ws
                  /\ final_df' = built
                  /\ IF render_kpis_raises(built)
                     THEN /\ run_status' = "kpi_exception"
                          /\ kpis' = NoKpis
                          /\ totals' = <<>>
                     ELSE /\ run_status' = "ok"
                          /\ kpis' = render_kpis(built)
                          /\ totals' = Totals(built)

\* landing_page(): the button "Go to Dashboard".  The dashboard's widgets
\* are drawn anew.
GoToDashboard ==
    /\ app_mode = "landing"
    /\ dashboard(NoFile, <<>>, <<>>, <<>>)

\* render_navbar(): the button "Back to Landing".  The landing page draws
\* none of the dashboard's widgets, so the uploader forgets its file.
BackToLanding ==
    /\ app_mode = "dashboard"
    /\ app_mode' = RouterDefault("landing")
    /\ uploaded_file' = NoFile
    /\ csv_data' = csv_data
    /\ run_status' = "landing"
    /\ NothingRendered

\* render_navbar(): the button "Refresh" reruns the script.
Refresh ==
    /\ app_mode = "dashboard"
    /\ dashboard(uploaded_file, date_range, compare_months, compare_weeks)

\* The uploader receives a file (the uploader is drawn before anything in
\* the sidebar can raise).
Upload ==
    /\ app_mode = "dashboard"
    /\ \E f \in UploadFiles :
         /\ f # uploaded_file
         /\ dashboard(f, date_range, compare_months, compare_weeks)

\* The user removes the file from the uploader.
RemoveFile ==
    /\ app_mode = "dashboard"
    /\ uploaded_file # NoFile
    /\ dashboard(NoFile, date_range, compare_months, compare_weeks)

SelectDateRange ==
    /\ app_mode = "dashboard"
    /\ SidebarShown
    /\ \E d \in DateChoices(csv_data) :
         /\ d # date_range
         /\ dashboard(uploaded_file, d, compare_months, compare_weeks)

SelectMonths ==
    /\ app_mode = "dashboard"
    /\ SidebarShown
    /\ \E m \in Selections(Range(month_options(csv_data))) :
         /\ m # compare_months
         /\ dashboard(uploaded_file, date_range, m, compare_weeks)

SelectWeeks ==
    /\ app_mode = "dashboard"
    /\ SidebarShown
    /\ \E w \in Selections(Range(week_options(csv_data))) :
         /\ w # compare_weeks
         /\ dashboard(uploaded_file, date_range, compare_months, w)

Next ==
    \/ GoToDashboard
    \/ BackToLanding
    \/ Refresh
    \/ Upload
    \/ RemoveFile
    \/ SelectDateRange
    \/ SelectMonths
    \/ SelectWeeks

Spec == Init /\ [][Next]_vars

\* ------------------------------------------- the engine as pure functions

\* Inputs of the engine: every table, every date pair over the days of the
\* calendar in use, every selection of its month labels and of its week labels
\* (a label need not match a row of the table).
EngineTables == {ParseTimestamp(read_csv(f)) : f \in GoodFiles}
EngineRanges == {p \in {date(t) : t \in Timestamps} \X {date(t) : t \in Timestamps} :
                   p[1] <= p[2]}
EngineMonths == Selections({to_period_M(t) : t \in Timestamps})
EngineWeeks == Selections({to_period_W(t) : t \in Timestamps})

EngineInit ==
    /\ app_mode = "dashboard"
    /\ uploaded_file = NoFile
    /\ csv_data \in EngineTables
    /\ date_range \in EngineRanges
    /\ compare_months \in EngineMonths
    /\ compare_weeks \in EngineWeeks
    /\ final_df = NoFrame
    /\ kpis = NoKpis
    /\ totals = <<>>
    /\ run_status = "start"

\* dashboard(), line 240: build_comparison_df on the inputs.
Align ==
    /\ run_status = "start"
    /\ final_df' = build_comparison_df(csv_data, date_range, compare_months, compare_weeks)
    /\ csv_data' = DataAfterBuild(csv_data, date_range, compare_months, compare_weeks)
    /\ run_status' = "aligned"
    /\ UNCHANGED <<app_mode, uploaded_file, date_range, compare_months, compare_weeks,
                   kpis, totals>>

\* dashboard(), line 242: render_kpis on the aligned frame.
Summarize ==
    /\ run_status = "aligned"
    /\ IF render_kpis_raises(final_df)
       THEN /\ run_status' = "kpi_exception"
            /\ kpis' = kpis
       ELSE /\ run_status' = "summarized"
            /\ kpis' = render_kpis(final_df)
    /\ UNCHANGED <<app_mode, uploaded_file, csv_data, date_range, compare_months,
                   compare_weeks, final_df, totals>>

\* dashboard(), line 252: the totals of the aligned frame.
Aggregate ==
    /\ run_status = "summarized"
    /\ totals' = Totals(final_df)
    /\ run_status' = "ok"
    /\ UNCHANGED <<app_mode, uploaded_file, csv_data, date_range, compare_months,
                   compare_weeks, final_df, kpis>>

EngineNext == Align \/ Summarize \/ Aggregate

EngineSpec == EngineInit /\ [][EngineNext]_vars

\* ------------------------------------------------------------- properties

\* build_comparison_df has returned a frame.
Aligned == final_df # NoFrame

DateRangeMode == compare_months = <<>> /\ compare_weeks = <<>>

\* The data columns of a sequence of rows, without the tags.
Untagged(rows) ==
    [i \in 1..Len(rows) |-> [idx |-> rows[i].idx, Timestamp |-> rows[i].Timestamp,
                             v |-> rows[i].v]]

PeriodsOf(df) == {df.rows[i].Period : i \in 1..Len(df.rows)}

\* C1 (as claimed): in date-range mode with start = end = d, the frame
\* returned holds exactly the rows of the table whose timestamp falls on day
\* d, whatever their time of day.
C1_SingleDayWindow ==
    (Aligned /\ DateRangeMode /\ date_range[1] = date_range[2])
      => LET OnDay(r) == date(r.Timestamp) = date_range[1]
         IN Untagged(final_df.rows) = SelectSeq(csv_data.rows, OnDay)

\* C2 (as claimed): with the default range (date of the earliest timestamp,
\* date of the latest) and no months or weeks, the frame returned has as many
\* rows as the table and exactly one Period label.
C2_WholeSpanKeepsEveryRow ==
    (Aligned /\ DateRangeMode /\ date_range = DateBounds(csv_data))
      => /\ Len(final_df.rows) = Len(csv_data.rows)
         /\ Cardinality(PeriodsOf(final_df)) = 1

\* C3 (as claimed): when the selection yields zero rows the run completes
\* (no exception leaves render_kpis).
C3_EmptySelectionCompletes ==
    (Aligned /\ final_df.rows = <<>>) => run_status = "ok"

\* C4 (as claimed): the totals hold one row per Period with the sum of the
\* variable, in order of first appearance of the Period in the aligned frame.
C4_TotalsInFirstAppearanceOrder ==
    run_status = "ok"
      => [k \in 1..Len(totals) |-> totals[k].Period]
           = Unique([i \in 1..Len(final_df.rows) |-> final_df.rows[i].Period])

\* C4 (amended): the totals hold one row per distinct Period of the aligned
\* frame, each with the sum of the variable over the rows of that Period, in
\* ascending order of the Period label.
C4_TotalsSortedByLabel ==
    run_status = "ok"
      => /\ {totals[k].Period : k \in 1..Len(totals)} = PeriodsOf(final_df)
         /\ Len(totals) = Cardinality(PeriodsOf(final_df))
         /\ \A k \in 1..Len(totals) :
              LET InGroup(r) == r.Period = totals[k].Period
                  group == SelectSeq(final_df.rows, InGroup)
              IN totals[k].v = SeqSum([i \in 1..Len(group) |-> group[i].v])
         /\ \A j, k \in 1..Len(totals) :
              j < k => PeriodLess(totals[j].Period, totals[k].Period)

\* Two periods were selected in an order that is not the order of their
\* labels, and both have rows.
C4_Witness ==
    /\ run_status = "ok"
    /\ Len(totals) = 2
    /\ final_df.rows[1].Period = totals[2].Period

\* C5: months take precedence over weeks, weeks over the date range.  With
\* months selected every row carries a month label and no other week
\* selection or date range changes the frame; with weeks and no months every
\* row carries a week label and no other date range changes the frame; with
\* neither, every row lies within the date range.
C5_SelectionPrecedence ==
    Aligned =>
      /\ compare_months # <<>> =>
           /\ \A i \in 1..Len(final_df.rows) : final_df.rows[i].Period[1] = "M"
           /\ \A w \in EngineWeeks, r \in EngineRanges :
                build_comparison_df(csv_data, r, compare_months, w) = final_df
      /\ (compare_months = <<>> /\ compare_weeks # <<>>) =>
           /\ \A i \in 1..Len(final_df.rows) : final_df.rows[i].Period[1] = "W"
           /\ \A r \in EngineRanges :
                build_comparison_df(csv_data, r, <<>>, compare_weeks) = final_df
      /\ DateRangeMode =>
           \A i \in 1..Len(final_df.rows) :
             /\ final_df.rows[i].Period = <<"R", date_range[1], date_range[2]>>
             /\ date(final_df.rows[i].Timestamp) >= date_range[1]
             /\ date(final_df.rows[i].Timestamp) <= date_range[2]

\* Months and weeks are both selected, the weeks select rows the months do
\* not, and the frame holds the months' rows.
C5_Witness ==
    /\ Aligned
    /\ compare_months # <<>>
    /\ compare_weeks # <<>>
    /\ final_df.rows # <<>>
    /\ Untagged(ConcatWeeks(csv_data, compare_weeks)) # Untagged(final_df.rows)

\* C6 (as claimed): no table whose Timestamp column is absent or unparsable is
\* held in session state.
C6_NoMalformedTableRetained ==
    csv_data # NotSet => ~TimestampRaises(csv_data)

\* C7: in month mode every row's Period is the year-month of its timestamp
\* and its AlignedX the day of the month, within 1..31; the rows come month
\* by month in the order of the selection; each selected month contributes
\* exactly the table's rows of that month, none when it matches none.
C7_MonthAlignment ==
    (Aligned /\ compare_months # <<>>) =>
      /\ \A i \in 1..Len(final_df.rows) :
           /\ final_df.rows[i].Period = to_period_M(final_df.rows[i].Timestamp)
           /\ final_df.rows[i].AlignedX \in 1..31
           /\ final_df.rows[i].AlignedX
                = date(final_df.rows[i].Timestamp)
                    - MonthStarts[final_df.rows[i].Period[3]] + 1
      /\ \A i, j \in 1..Len(final_df.rows) :
           i < j => \E a, b \in 1..Len(compare_months) :
                      /\ a <= b
                      /\ compare_months[a] = final_df.rows[i].Period
                      /\ compare_months[b] = final_df.rows[j].Period
      /\ \A a \in 1..Len(compare_months) :
           LET Tagged(r) == r.Period = compare_months[a]
               InMonth(r) == to_period_M(r.Timestamp) = compare_months[a]
           IN Untagged(SelectSeq(final_df.rows, Tagged)) = SelectSeq(csv_data.rows, InMonth)

\* Two months are selected, the first matches no row of the table and the
\* second does.
C7_Witness ==
    /\ Aligned
    /\ Len(compare_months) = 2
    /\ final_df.rows # <<>>
    /\ \A i \in 1..Len(final_df.rows) : final_df.rows[i].Period = compare_months[2]

\* C8: the peak timestamp is the timestamp of the first row of the aligned
\* frame, in its row order, whose value is the maximum.
C8_PeakIsFirstMaximum ==
    run_status \in {"summarized", "ok"} =>
      \E i \in 1..Len(final_df.rows) :
        /\ \A j \in 1..Len(final_df.rows) : final_df.rows[j].v <= final_df.rows[i].v
        /\ \A j \in 1..(i - 1) : final_df.rows[j].v < final_df.rows[i].v
        /\ kpis.max = final_df.rows[i].v
        /\ kpis.peak = <<final_df.rows[i].Timestamp>>

\* Two rows at different timestamps share the maximum, and the aligned frame
\* lists the table's rows in another order than the table.
C8_Witness ==
    /\ run_status = "summarized"
    /\ Len(final_df.rows) = 2
    /\ final_df.rows[1].v = final_df.rows[2].v
    /\ final_df.rows[1].Timestamp # final_df.rows[2].Timestamp
    /\ final_df.rows[1].idx > final_df.rows[2].idx

\* C9: the session table never carries a Period or AlignedX column, and a run
\* that builds the comparison frame without a new file in the uploader leaves
\* the session table as it was: same columns, same rows, same values.
C9_EngineLeavesSessionTable ==
    /\ [](~HasColumn(csv_data, "Period") /\ ~HasColumn(csv_data, "AlignedX"))
    /\ [][(final_df' # NoFrame /\ uploaded_file' \in {uploaded_file, NoFile}
             /\ csv_data # NotSet)
            => csv_data' = csv_data]_vars

\* The comparison frame was built from the session table, by months, with no
\* file in the uploader.
C9_Witness ==
    /\ uploaded_file = NoFile
    /\ compare_months # <<>>
    /\ Len(final_df.rows) = 2
    /\ Len(csv_data.rows) = 2

\* C10: app_mode starts as landing and is always landing or dashboard, and a
\* navigation step (Go to Dashboard, Back to Landing, Refresh) leaves
\* csv_data as it was.
C10_NavigationKeepsTable ==
    /\ app_mode = "landing"
    /\ [](app_mode \in {"landing", "dashboard"})
    /\ [][(\/ app_mode' # app_mode
           \/ UNCHANGED <<app_mode, uploaded_file, date_range, compare_months,
                          compare_weeks>>)
            => csv_data' = csv_data]_vars

\* Back on the landing page with a table loaded.
C10_Witness ==
    /\ app_mode = "landing"
    /\ csv_data # NotSet
    /\ ~TimestampRaises(csv_data)
====
